---- MODULE Spec2Model ----
(***************************************************************************)
(* TempEmailPro: the email-generation routes over the Supabase tables,     *)
(* EmailService with its provider fallback, the effective-tier functions,  *)
(* and the useAdvancedPolling hook.                                        *)
(***************************************************************************)
EXTENDS Integers, Sequences, FiniteSets, Bags, TLC

(* ---------------------------------------------------------------------- *)
(* Bounds of the model                                                     *)
(* ---------------------------------------------------------------------- *)
NumRequests == 2        \* concurrent POST /api/emails/generate requests
MaxDay == 1             \* calendar days the clock can advance through
MaxPosts == 1           \* POST /api/emails requests handled in one run
MaxInFlight == 2        \* polls awaiting their promise at the same time
MaxErrors == 5          \* consecutive failed polls the hook is followed through
MaxTrialCalls == 3      \* TrialService.startTrial calls per user
MaxSessions == 2        \* Stripe checkout sessions created in one run
MaxDeliveries == 2      \* requests received by the webhook endpoint in one run
MaxGenerated == 2       \* addresses generated on one EmailService instance
MaxMessages == 3        \* messages that arrive for the polled address
MaxRows == 3            \* temp_emails rows in the table when GET /api/emails is called

(* ---------------------------------------------------------------------- *)
(* Values                                                                  *)
(* ---------------------------------------------------------------------- *)
NULL == "null"
Users == {"u1", "u2"}
Days == 0..MaxDay
Tiers == {"free", "quick", "extended", "pro"}
\* users.subscription_tier is a nullable TEXT column with a CHECK over Tiers
TierValues == Tiers \cup {NULL}

\* A users row.  A nullable timestamp is the set of its values: {} is NULL,
\* {d} is day d.
NoDate == {}
UserRow(tier, expires) == [subscription_tier |-> tier, subscription_expires_at |-> expires]
NoUser == UserRow(NULL, NoDate)

\* Strings that are taken apart by the code are sequences of tokens; "@" is
\* the separator token.  The empty sequence is the empty / absent string.
AT == "@"
NoStr == <<>>
Truthy(s) == s # NoStr

RECURSIVE SplitTail(_, _, _)
SplitTail(s, sep, cur) ==
    IF s = <<>> THEN <<cur>>
    ELSE IF Head(s) = sep THEN <<cur>> \o SplitTail(Tail(s), sep, <<>>)
    ELSE SplitTail(Tail(s), sep, Append(cur, Head(s)))

\* String.prototype.split(sep): the segments between separators
Split(s, sep) == SplitTail(s, sep, <<>>)

\* emailAddress.split('@')[1] (JavaScript indexes from 0)
DomainOf(emailAddress) == Split(emailAddress, AT)[2]

(* ---------------------------------------------------------------------- *)
(* State                                                                   *)
(* ---------------------------------------------------------------------- *)
VARIABLES
    day,            \* the calendar date (CURRENT_DATE, new Date())
    users,          \* table users: subscription_tier, subscription_expires_at
    user_trials,    \* table user_trials: at most one row per user
    daily_usage,    \* table daily_usage: emails_generated per (user_id, date)
    temp_emails,    \* table temp_emails: a bag of rows
    req,            \* POST /api/emails/generate requests in progress
    post,           \* the POST /api/emails requests handled so far
    tierEval,       \* last evaluation of TrialService.getEffectiveUserTier
    hook,           \* useAdvancedPolling: state, data, error, refs
    timers,         \* pending setTimeout callbacks of the hook
    inflight,       \* polls awaiting pollingFunction(): a bag
    trials,         \* TrialService.startTrial calls made for each user
    stripe,         \* Stripe checkout sessions and what the webhook handler did
    listing,        \* the last GET /api/emails response
    mail,           \* an EmailService instance and its last results
    realtime        \* useRealtimeMessages: its state and the notifications made

dbVars == <<day, users, user_trials, daily_usage, temp_emails>>
hookVars == <<hook, timers, inflight>>
auxVars == <<trials, stripe, listing, mail, realtime>>
vars == <<day, users, user_trials, daily_usage, temp_emails, req, post,
          tierEval, hook, timers, inflight, trials, stripe, listing, mail,
          realtime>>

(* ---------------------------------------------------------------------- *)
(* Tier tables                                                             *)
(* ---------------------------------------------------------------------- *)
\* POST /api/emails/generate: limits[tier] || limits.free
GenerateLimits(tier) ==
    CASE tier = "quick"    -> [emails_per_day |-> 25,  retention_hours |-> 24]
      [] tier = "extended" -> [emails_per_day |-> 100, retention_hours |-> 168]
      [] tier = "pro"      -> [emails_per_day |-> 500, retention_hours |-> 720]
      [] OTHER             -> [emails_per_day |-> 5,   retention_hours |-> 1]

\* PREMIUM_DOMAINS: the tier each premium domain requires
PREMIUM_DOMAINS ==
    [d \in {<<"techsci.dev">>, <<"techsci.xyz">>, <<"negoman.com">>, <<"techsci.tech">>} |->
        CASE d = <<"techsci.dev">>  -> "quick"
          [] d = <<"techsci.xyz">>  -> "quick"
          [] d = <<"negoman.com">>  -> "extended"
          [] d = <<"techsci.tech">> -> "pro"]

\* tierOrder.indexOf(tier): the position in free < quick < extended < pro,
\* -1 for a value that is not in the list
TierIndex(tier) ==
    CASE tier = "free"     -> 0
      [] tier = "quick"    -> 1
      [] tier = "extended" -> 2
      [] tier = "pro"      -> 3
      [] OTHER             -> -1

(* ---------------------------------------------------------------------- *)
(* Database functions                                                      *)
(* ---------------------------------------------------------------------- *)
\* daily_usage.emails_generated of (user_id, date); no row reads as 0
EmailsGenerated(u, d) == daily_usage[u][d]

\* increment_daily_usage(user_uuid, 'emails_generated', increment_by):
\* one INSERT ... ON CONFLICT DO UPDATE on the row of CURRENT_DATE
increment_daily_usage(usage, u, increment_by) ==
    [usage EXCEPT ![u][day] = @ + increment_by]

\* the number of temp_emails rows inserted for a user on a day
RowsOf(u, d) ==
    LET S == {row \in BagToSet(temp_emails) : row.user_id = u /\ row.created_day = d}
    IN BagCardinality([row \in S |-> temp_emails[row]])

\* midnight passes
NewDay ==
    /\ day < MaxDay
    /\ day' = day + 1
    /\ UNCHANGED <<users, user_trials, daily_usage, temp_emails, req, post,
                   tierEval, hook, timers, inflight, auxVars>>

(* ---------------------------------------------------------------------- *)
(* POST /api/emails/generate                                               *)
(* ---------------------------------------------------------------------- *)
Requests == 1..NumRequests
ANON == "anon"

\* request bodies { domain, custom_domain }
GenerateBodies ==
    { [domain |-> NoStr,              custom_domain |-> FALSE],
      [domain |-> <<"techsci.dev">>,  custom_domain |-> TRUE],
      [domain |-> <<"techsci.tech">>, custom_domain |-> FALSE] }

IdleRequest ==
    [pc |-> "idle", user |-> ANON, body |-> [domain |-> NoStr, custom_domain |-> FALSE],
     tier |-> NULL, today |-> 0, emailsGenerated |-> 0, emailAddress |-> NoStr,
     status |-> 0, error |-> "", inserted |-> 0, incremented |-> 0]

\* generateRandomEmail(customDomain): `${username}@${customDomain || 'tempmail.org'}`
generateRandomEmail(customDomain) ==
    <<"quickuser1", AT>> \o (IF Truthy(customDomain) THEN customDomain ELSE <<"tempmail.org">>)

\* the handler has returned: its response is kept (with the count it read),
\* its other locals are gone
Responded(q, status, error) ==
    [q EXCEPT !.pc = "done", !.status = status, !.error = error,
              !.body = IdleRequest.body, !.tier = NULL, !.today = 0,
              !.emailAddress = NoStr]

\* lines 7-28: getUser(), 401 for no session; the body is read; select
\* subscription_tier, default 'free'; today's date.  Requests are numbered
\* in their order of arrival.
GenerateBegin(r, u, body) ==
    /\ req[r].pc = "idle"
    /\ \A q \in Requests : q < r => req[q].pc # "idle"
    /\ req' = [req EXCEPT ![r] =
                 IF u = ANON
                 THEN Responded(@, 401, "Unauthorized")
                 ELSE LET st == users[u].subscription_tier
                      IN [@ EXCEPT !.pc = "selectUsage", !.user = u, !.body = body,
                                   !.tier = IF st = NULL THEN "free" ELSE st,
                                   !.today = day]]
    /\ UNCHANGED <<dbVars, post, tierEval, hookVars, auxVars>>

\* the comparison with > in place of >=: one email more than the limit
LimitReachedStrict(emailsGenerated, userLimits) ==
    emailsGenerated > userLimits.emails_per_day

\* line 48: emailsGenerated >= userLimits.emails_per_day
LimitReached(emailsGenerated, userLimits) ==
    emailsGenerated >= userLimits.emails_per_day

\* lines 29-58: select today's usage, compare with the tier's limit,
\* 402 'Daily limit reached' or the address is generated
GenerateSelectUsage(r) ==
    /\ req[r].pc = "selectUsage"
    /\ LET emailsGenerated == EmailsGenerated(req[r].user, req[r].today)
           userLimits == GenerateLimits(req[r].tier)
       IN req' = [req EXCEPT ![r] =
                    IF LimitReached(emailsGenerated, userLimits)
                    THEN Responded([@ EXCEPT !.emailsGenerated = emailsGenerated],
                                   402, "Daily limit reached")
                    ELSE [@ EXCEPT !.pc = "insert", !.emailsGenerated = emailsGenerated,
                                   !.emailAddress = generateRandomEmail(req[r].body.domain)]]
    /\ UNCHANGED <<dbVars, post, tierEval, hookVars, auxVars>>

\* the row of lines 63-71
GenerateRow(r) ==
    [user_id |-> req[r].user,
     email_address |-> req[r].emailAddress,
     domain |-> DomainOf(req[r].emailAddress),
     provider |-> "mail.tm",
     retention_hours |-> GenerateLimits(req[r].tier).retention_hours,
     custom_domain |-> req[r].body.custom_domain,
     is_active |-> TRUE,
     created_day |-> day]

\* lines 61-78: insert into temp_emails; a saveError gives 500
GenerateInsert(r, saveError) ==
    /\ req[r].pc = "insert"
    /\ IF saveError
       THEN /\ req' = [req EXCEPT ![r] = Responded(@, 500, "Failed to save email")]
            /\ UNCHANGED temp_emails
       ELSE /\ temp_emails' = temp_emails (+) SetToBag({GenerateRow(r)})
            /\ req' = [req EXCEPT ![r].pc = "rpc", ![r].inserted = @ + 1]
    /\ UNCHANGED <<day, users, user_trials, daily_usage, post, tierEval, hookVars, auxVars>>

\* lines 81-96: rpc increment_daily_usage(.., 'emails_generated', 1), then 200
GenerateIncrement(r) ==
    /\ req[r].pc = "rpc"
    /\ daily_usage' = increment_daily_usage(daily_usage, req[r].user, 1)
    /\ req' = [req EXCEPT ![r] = Responded([@ EXCEPT !.incremented = @ + 1], 200, "")]
    /\ UNCHANGED <<day, users, user_trials, temp_emails, post, tierEval, hookVars, auxVars>>


(* ---------------------------------------------------------------------- *)
(* EmailService (lib/email-service.ts)                                     *)
(* ---------------------------------------------------------------------- *)
\* private providers: EmailProvider[] = [MailTmProvider, TempMailProvider]
providers ==
    << [name |-> "Mail.tm",      supportCustomDomains |-> TRUE],
       [name |-> "TempMail.lol", supportCustomDomains |-> FALSE] >>

\* what the two third-party APIs do during one generateEmail call:
\* isHealthy() answers healthy[i]; generateEmail() returns iff generates[i]
ProviderEnvs ==
    {env \in [healthy : [1..2 -> BOOLEAN], generates : [1..2 -> BOOLEAN]] :
        \A i \in 1..2 : ~env.healthy[i] => ~env.generates[i]}

\* MailTmProvider.generateEmail(customDomain): `${username}@${domain}`
\* with domain = customDomain || domains[0]?.domain
MailTmGenerateEmail(customDomain) ==
    <<"quickuser1", AT>> \o (IF Truthy(customDomain) THEN customDomain ELSE <<"mail.tm.example">>)

\* TempMailProvider.generateEmail(): data.email of /generate
TempMailGenerateEmail == <<"box1", AT, "tempmail.lol.example">>

ProviderGenerateEmail(i, domainArg) ==
    IF i = 1 THEN MailTmGenerateEmail(domainArg) ELSE TempMailGenerateEmail

\* getUserLimits(tier): limits[tier] || limits.free
getUserLimits(tier) ==
    CASE tier = "quick"    -> [emailsPerDay |-> 25,  retentionHours |-> 24,  customDomains |-> TRUE]
      [] tier = "extended" -> [emailsPerDay |-> 100, retentionHours |-> 168, customDomains |-> TRUE]
      [] tier = "pro"      -> [emailsPerDay |-> 500, retentionHours |-> 720, customDomains |-> TRUE]
      [] OTHER             -> [emailsPerDay |-> 5,   retentionHours |-> 1,   customDomains |-> FALSE]

\* the comparison with its sides exchanged
canAccessDomainSwapped(userTier, requiredTier) ==
    TierIndex(requiredTier) >= TierIndex(userTier)

\* canAccessDomain(userTier, requiredTier): userIndex >= requiredIndex
canAccessDomain(userTier, requiredTier) ==
    TierIndex(userTier) >= TierIndex(requiredTier)

\* getTodayEmailCount(userId): "TODO: Replace with actual Supabase client";
\* it logs and returns 0 whatever daily_usage holds
getTodayEmailCount(userId) == 0

Min(a, b) == IF a <= b THEN a ELSE b

\* Math.min(options?.retentionHours || limits.retentionHours, limits.retentionHours);
\* 0 stands for an absent (or zero) option, which || replaces
AppliedRetention(requested, limits) ==
    Min(IF requested # 0 THEN requested ELSE limits.retentionHours, limits.retentionHours)

Thrown(kind, message, log) ==
    [outcome |-> kind, message |-> message, email |-> NoStr, provider |-> "",
     retentionHours |-> 0, log |-> log]

\* the result named after the first provider of the list, whichever answered
ReturnedFirstProvider(provider, email, retentionHours, log) ==
    [outcome |-> "ok", message |-> "", email |-> email, provider |-> providers[1].name,
     retentionHours |-> retentionHours, log |-> log]

\* lines 300-304: return { email, expiresAt, provider: provider.name }
Returned(provider, email, retentionHours, log) ==
    [outcome |-> "ok", message |-> "", email |-> email, provider |-> provider.name,
     retentionHours |-> retentionHours, log |-> log]

\* lines 268-312: the loop over the providers, from provider i on
RECURSIVE TryProviders(_, _, _, _, _, _)
TryProviders(i, user, options, limits, env, log) ==
    IF i > Len(providers)
    THEN Thrown("Error", "All email providers are currently unavailable", log)
    ELSE
      LET provider == providers[i]
          log1 == Append(log, [call |-> "isHealthy", provider |-> provider.name,
                               arg |-> NoStr, result |-> env.healthy[i],
                               returned |-> NoStr])
          domainArg == IF Truthy(options.customDomain) /\ provider.supportCustomDomains
                       THEN options.customDomain ELSE NoStr
          email == ProviderGenerateEmail(i, domainArg)
          log2 == Append(log1, [call |-> "generateEmail", provider |-> provider.name,
                                arg |-> domainArg, result |-> env.generates[i],
                                returned |-> IF env.generates[i] THEN email ELSE NoStr])
          retentionHours == AppliedRetention(options.retentionHours, limits)
          log3 == log2 \o << [call |-> "saveGeneratedEmail", provider |-> provider.name,
                              arg |-> email, result |-> TRUE, returned |-> NoStr],
                             [call |-> "trackUsage", provider |-> provider.name,
                              arg |-> email, result |-> TRUE, returned |-> NoStr] >>
      IN IF ~env.healthy[i] THEN TryProviders(i + 1, user, options, limits, env, log1)
         ELSE IF ~env.generates[i] THEN TryProviders(i + 1, user, options, limits, env, log2)
         ELSE Returned(provider, email, retentionHours, log3)

\* EmailService.generateEmail(user, options), lines 233-313
ServiceGenerateEmail(user, options, env) ==
    LET limits == getUserLimits(user.subscription_tier)
        todayCount == getTodayEmailCount(user.id)
    IN IF todayCount >= limits.emailsPerDay
       THEN Thrown("PremiumFeatureRequired", "Daily limit reached", <<>>)
       ELSE IF Truthy(options.customDomain) /\ ~limits.customDomains
       THEN Thrown("PremiumFeatureRequired",
                   "Custom domains require a premium subscription.", <<>>)
       ELSE IF /\ Truthy(options.customDomain)
               /\ options.customDomain \in DOMAIN PREMIUM_DOMAINS
               /\ ~canAccessDomain(user.subscription_tier,
                                   PREMIUM_DOMAINS[options.customDomain])
       THEN Thrown("PremiumFeatureRequired", "Domain requires a higher plan", <<>>)
       ELSE TryProviders(1, user, options, limits, env, <<>>)

(* ---------------------------------------------------------------------- *)
(* One EmailService instance (lib/email-service.ts)                        *)
(* ---------------------------------------------------------------------- *)
\* options.retentionHours is a number: negative, absent or zero, below and
\* above every tier's retention
RequestedRetention == {-1, 0, 12, 1000}

ServiceTiers == {"free", "quick", "pro"}
ServiceDomains == {NoStr, <<"techsci.dev">>}

\* service.generateEmail(user, options) on the instance; the MailTmProvider
\* of the instance keeps the token of the account it created last
\* (this.token = auth.token, line 76)
ServiceGenerate(tier, customDomain, requested, env) ==
    /\ Len(mail.generated) < MaxGenerated
    /\ LET user == [id |-> "u1", subscription_tier |-> tier]
           result == ServiceGenerateEmail(user,
                        [customDomain |-> customDomain, retentionHours |-> requested], env)
       IN mail' =
            IF result.outcome # "ok"
            THEN [mail EXCEPT !.threw = result.outcome]
            ELSE [mail EXCEPT
                    !.threw = "",
                    !.token = IF result.provider = "Mail.tm" THEN result.email ELSE @,
                    !.generated = Append(@, [email |-> result.email,
                                             provider |-> result.provider,
                                             tier |-> tier,
                                             customDomain |-> customDomain,
                                             requested |-> requested,
                                             retentionHours |-> result.retentionHours])]
    /\ UNCHANGED <<dbVars, req, post, tierEval, hookVars, trials, stripe, listing,
                   realtime>>

\* getEmailRecord(email), lines 372-376: "TODO: Replace with actual Supabase
\* client"; every address is said to come from Mail.tm
getEmailRecord(email) == [provider |-> "Mail.tm"]

NoInbox == [provider |-> "", address |-> NoStr]

\* the inbox provider.getMessages(_email) fetches: MailTmProvider asks
\* /messages with this.token and does not use _email (lines 85-116);
\* TempMailProvider asks /auth/${_email} (lines 165-186)
InboxRead(providerName, email, token) ==
    IF providerName = "Mail.tm"
    THEN [provider |-> providerName, address |-> token]
    ELSE [provider |-> providerName, address |-> email]

\* service.getMessages(email), lines 315-333: the messages of the inbox that
\* was fetched; [] when the provider throws ('Not authenticated' without a
\* token) or the fetch fails
ServiceGetMessages(email, fetchFails) ==
    /\ \E i \in DOMAIN mail.generated : mail.generated[i].email = email
    /\ LET emailRecord == getEmailRecord(email)
           notAuthenticated == emailRecord.provider = "Mail.tm" /\ mail.token = NoStr
       IN mail' = [mail EXCEPT !.read =
            IF notAuthenticated \/ fetchFails
            THEN [email |-> email, fetched |-> FALSE, inbox |-> NoInbox]
            ELSE [email |-> email, fetched |-> TRUE,
                  inbox |-> InboxRead(emailRecord.provider, email, mail.token)]]
    /\ UNCHANGED <<dbVars, req, post, tierEval, hookVars, trials, stripe, listing,
                   realtime>>

(* ---------------------------------------------------------------------- *)
(* Effective tier                                                          *)
(* ---------------------------------------------------------------------- *)
\* SQL get_effective_user_tier(user_uuid)
get_effective_user_tier(u) ==
    LET user_tier == users[u].subscription_tier
        has_active_trial == \E t \in user_trials[u] : t.is_active /\ t.expires_at > day
    IN IF has_active_trial THEN "extended"
       ELSE IF user_tier = NULL THEN "free" ELSE user_tier

\* TrialService.isSubscriptionActive(user)
isSubscriptionActive(user) ==
    IF user.subscription_expires_at = NoDate THEN FALSE
    ELSE \A e \in user.subscription_expires_at : e > day

\* TrialService.getEffectiveUserTier(user, trialStatus)
getEffectiveUserTier(user, trialStatus) ==
    IF user.subscription_tier # "free" /\ isSubscriptionActive(user)
    THEN user.subscription_tier
    ELSE IF trialStatus.isActive THEN "extended"
    ELSE "free"

\* both functions are evaluated for a user: TrialService.getEffectiveUserTier
\* on the users row and a TrialStatus, the SQL function on the tables
EvalEffectiveTier(u, isActive) ==
    /\ tierEval' = [user |-> u, row |-> users[u], trial |-> user_trials[u], day |-> day,
                    trialActive |-> isActive,
                    result |-> getEffectiveUserTier(users[u], [isActive |-> isActive]),
                    sqlResult |-> get_effective_user_tier(u)]
    /\ UNCHANGED <<dbVars, req, post, hookVars, auxVars>>

(* ---------------------------------------------------------------------- *)
(* POST /api/emails (app/api/emails/route.ts)                              *)
(* ---------------------------------------------------------------------- *)
\* customDomain values of the request body; null is the empty string
CustomDomains == {NoStr, <<"techsci.dev">>, <<"negoman.com">>, <<"techsci.tech">>,
                  <<"other.example">>}

\* lines 41-54: retention by effective tier
RouteRetentionHours(effectiveTier) ==
    CASE effectiveTier = "quick"    -> 24
      [] effectiveTier = "extended" -> 24 * 7
      [] effectiveTier = "pro"      -> 24 * 30
      [] OTHER                      -> 1

\* getEffectiveTier(userId): rpc get_effective_user_tier, data || 'free'
getEffectiveTier(u) ==
    LET data == get_effective_user_tier(u) IN IF data = NULL THEN "free" ELSE data

\* the record kept of one handled request
PostRecord(u, customDomain, result, status, effectiveTier, retentionHours, inserted, incremented) ==
    [n |-> post.n + 1, user |-> u, customDomain |-> customDomain,
     profile |-> IF u = ANON THEN NoUser ELSE users[u],
     trial |-> IF u = ANON THEN {} ELSE user_trials[u],
     day |-> day,
     emailsGenerated |-> IF u = ANON THEN 0 ELSE EmailsGenerated(u, day),
     result |-> result, status |-> status, effectiveTier |-> effectiveTier,
     retentionHours |-> retentionHours, inserted |-> inserted,
     incremented |-> incremented]

NoResult == Thrown("none", "", <<>>)

\* the row of lines 62-69
PostRow(u, emailAddress, customDomain, retentionHours) ==
    [user_id |-> u,
     email_address |-> emailAddress,
     domain |-> DomainOf(emailAddress),
     provider |-> "mail.tm",
     retention_hours |-> retentionHours,
     custom_domain |-> Truthy(customDomain),
     is_active |-> TRUE,
     created_day |-> day]

\* POST, lines 7-131: 401 without a session; today's usage is read (and not
\* used); generateEmail(profile, { customDomain }) on a new EmailService;
\* PremiumFeatureRequired gives 402, any other error 500; otherwise the
\* row is inserted (500 on saveError), increment_daily_usage is called, 200
PostEmails(u, customDomain, env, saveError) ==
    /\ post.n < MaxPosts
    /\ IF u = ANON
       THEN /\ post' = PostRecord(u, customDomain, NoResult, 401, NULL, 0, FALSE, FALSE)
            /\ UNCHANGED <<temp_emails, daily_usage>>
       ELSE
         LET profile == [id |-> u, subscription_tier |-> users[u].subscription_tier]
             result == ServiceGenerateEmail(profile,
                          [customDomain |-> customDomain, retentionHours |-> 0], env)
             effectiveTier == getEffectiveTier(u)
             retentionHours == RouteRetentionHours(effectiveTier)
         IN IF result.outcome = "PremiumFeatureRequired"
            THEN /\ post' = PostRecord(u, customDomain, result, 402, NULL, 0, FALSE, FALSE)
                 /\ UNCHANGED <<temp_emails, daily_usage>>
            ELSE IF result.outcome # "ok"
            THEN /\ post' = PostRecord(u, customDomain, result, 500, NULL, 0, FALSE, FALSE)
                 /\ UNCHANGED <<temp_emails, daily_usage>>
            ELSE IF saveError
            THEN /\ post' = PostRecord(u, customDomain, result, 500, effectiveTier,
                                       retentionHours, FALSE, FALSE)
                 /\ UNCHANGED <<temp_emails, daily_usage>>
            ELSE /\ temp_emails' = temp_emails (+)
                       SetToBag({PostRow(u, result.email, customDomain, retentionHours)})
                 /\ daily_usage' = increment_daily_usage(daily_usage, u, 1)
                 /\ post' = PostRecord(u, customDomain, result, 200, effectiveTier,
                                       retentionHours, TRUE, TRUE)
    /\ UNCHANGED <<day, users, user_trials, req, tierEval, hookVars, auxVars>>

(* ---------------------------------------------------------------------- *)
(* useAdvancedPolling (hooks/useAdvancedPolling.ts)                        *)
(* ---------------------------------------------------------------------- *)
\* the configurations the hook is used with: its defaults, useRealtimeEmails,
\* useRealtimeMessages, useRealtimeMetrics
PollingConfigs ==
    { [baseInterval |-> 10000, maxInterval |-> 300000, maxRetries |-> 5,
       backoffMultiplier |-> 2, isOnlinePollingEnabled |-> TRUE],
      [baseInterval |-> 10000, maxInterval |-> 120000, maxRetries |-> 3,
       backoffMultiplier |-> 2, isOnlinePollingEnabled |-> TRUE],
      [baseInterval |-> 5000, maxInterval |-> 60000, maxRetries |-> 5,
       backoffMultiplier |-> 2, isOnlinePollingEnabled |-> TRUE],
      [baseInterval |-> 30000, maxInterval |-> 300000, maxRetries |-> 3,
       backoffMultiplier |-> 2, isOnlinePollingEnabled |-> FALSE] }

NoData == "none"
NoError == "none"

RECURSIVE Pow(_, _)
Pow(b, e) == IF e <= 0 THEN 1 ELSE b * Pow(b, e - 1)

\* the exponent errorCount in place of errorCount - 1
calculateNextIntervalFromFirst(config, errorCount) ==
    IF errorCount = 0 THEN config.baseInterval
    ELSE Min(config.baseInterval * Pow(config.backoffMultiplier, errorCount),
             config.maxInterval)

\* calculateNextInterval(errorCount), lines 52-59
calculateNextInterval(config, errorCount) ==
    IF errorCount = 0 THEN config.baseInterval
    ELSE Min(config.baseInterval * Pow(config.backoffMultiplier, errorCount - 1),
             config.maxInterval)

\* The callbacks of one render close over that render's `state`: a timer
\* callback or a promise continuation keeps the values of the render that
\* created it.
Snap(h) ==
    [isPolling |-> h.isPolling, isOnline |-> h.isOnline,
     consecutiveErrors |-> h.consecutiveErrors, currentInterval |-> h.currentInterval]

\* the hook as mounted: useState initial values and refs, lines 35-49
Mounted(config, onLine) ==
    [config |-> config,
     isPolling |-> FALSE, isOnline |-> onLine, consecutiveErrors |-> 0,
     currentInterval |-> config.baseInterval,
     data |-> NoData, error |-> NoError, loading |-> FALSE,
     timeoutRef |-> 0, isActiveRef |-> TRUE,
     onLine |-> onLine]

\* setState / setData / setError / setLoading of an unmounted component
\* change nothing
SetState(h, h2) == IF h.isActiveRef THEN h2 ELSE h

\* lines 63-74: the guards of executePolling, on the closure's state
CanExecute(h, snap) ==
    /\ h.isActiveRef
    /\ ~(h.config.isOnlinePollingEnabled /\ ~snap.isOnline)
    /\ ~(snap.consecutiveErrors >= h.config.maxRetries)

\* setTimeout returns an id no pending timer has
NewTimerId(pending) ==
    CHOOSE i \in 1..(Cardinality(pending) + 1) :
       /\ \A t \in pending : t.id # i
       /\ \A j \in 1..(i - 1) : \E t \in pending : t.id = j

ClearTimeout(tm, id) == {t \in tm : t.id # id}

\* scheduleNextPoll of the closure `snap`, lines 118-132
ScheduleNextPoll(h, tm, snap) ==
    IF ~h.isActiveRef \/ ~snap.isPolling THEN [hook |-> h, timers |-> tm]
    ELSE LET cleared == IF h.timeoutRef # 0 THEN ClearTimeout(tm, h.timeoutRef) ELSE tm
             id == NewTimerId(cleared)
         IN [hook |-> [h EXCEPT !.timeoutRef = id],
             timers |-> cleared \cup {[id |-> id, snap |-> snap]}]

\* what runs when executePolling's promise resolves: the .then of the timer
\* callback (126-130), the .then of startPolling (137-141), the rest of
\* forcePoll (155-158)
Continuation(h, tm, snap, kind) ==
    CASE kind = "timer" -> IF h.isActiveRef /\ snap.isPolling
                           THEN ScheduleNextPoll(h, tm, snap)
                           ELSE [hook |-> h, timers |-> tm]
      [] kind = "start" -> IF h.isActiveRef
                           THEN ScheduleNextPoll(h, tm, snap)
                           ELSE [hook |-> h, timers |-> tm]
      [] kind = "force" -> IF snap.isPolling
                           THEN ScheduleNextPoll(h, tm, snap)
                           ELSE [hook |-> h, timers |-> tm]

\* executePolling() of the closure `snap` is called, h being the hook after
\* the caller's own updates: either pollingFunction is invoked and awaited
\* (lines 76-79) or a guard returns and the caller's continuation runs
ExecutePolling(h, snap, kind) ==
    IF CanExecute(h, snap)
    THEN /\ BagCardinality(inflight) < MaxInFlight
         /\ inflight' = inflight (+) SetToBag({[snap |-> snap, kind |-> kind]})
         /\ hook' = SetState(h, [h EXCEPT !.loading = TRUE])
         /\ UNCHANGED timers
    ELSE LET next == Continuation(h, timers, snap, kind)
         IN /\ hook' = next.hook
            /\ timers' = next.timers
            /\ UNCHANGED inflight

otherVars == <<dbVars, req, post, tierEval, auxVars>>

\* startPolling(), lines 135-142
StartPolling ==
    /\ ExecutePolling(SetState(hook, [hook EXCEPT !.isPolling = TRUE]), Snap(hook), "start")
    /\ UNCHANGED otherVars

\* stopPolling(), lines 145-151
StopPolling ==
    /\ hook' = [SetState(hook, [hook EXCEPT !.isPolling = FALSE]) EXCEPT !.timeoutRef = 0]
    /\ timers' = IF hook.timeoutRef # 0 THEN ClearTimeout(timers, hook.timeoutRef) ELSE timers
    /\ UNCHANGED <<inflight, otherVars>>

\* forcePoll(), lines 154-159
ForcePoll ==
    /\ ExecutePolling(hook, Snap(hook), "force")
    /\ UNCHANGED otherVars

\* the browser goes online: handleOnline, lines 163-169
HandleOnline ==
    /\ hook.isActiveRef /\ ~hook.onLine
    /\ LET h == [hook EXCEPT !.onLine = TRUE, !.isOnline = TRUE]
       IN IF hook.isPolling
          THEN ExecutePolling(h, Snap(hook), "force")
          ELSE hook' = h /\ UNCHANGED <<timers, inflight>>
    /\ UNCHANGED otherVars

\* the browser goes offline: handleOffline, lines 171-176
HandleOffline ==
    /\ hook.isActiveRef /\ hook.onLine
    /\ hook' = [hook EXCEPT !.onLine = FALSE, !.isOnline = FALSE]
    /\ timers' = IF hook.timeoutRef # 0 THEN ClearTimeout(timers, hook.timeoutRef) ELSE timers
    /\ UNCHANGED <<inflight, otherVars>>

\* visibilitychange, lines 189-199, with document.hidden as the browser
\* reports it
HandleVisibilityChange(hidden) ==
    /\ hook.isActiveRef
    /\ IF hidden
       THEN /\ timers' = IF hook.timeoutRef # 0
                         THEN ClearTimeout(timers, hook.timeoutRef) ELSE timers
            /\ UNCHANGED <<hook, inflight>>
       ELSE IF hook.isPolling
       THEN ExecutePolling(hook, Snap(hook), "force")
       ELSE UNCHANGED <<hook, timers, inflight>>
    /\ UNCHANGED otherVars

\* a pending timer fires: the callback of lines 125-131
TimerFires(t) ==
    /\ t \in timers
    /\ LET rest == timers \ {t}
           next == Continuation(hook, rest, t.snap, "timer")
       IN IF CanExecute(hook, t.snap)
          THEN /\ BagCardinality(inflight) < MaxInFlight
               /\ inflight' = inflight (+) SetToBag({[snap |-> t.snap, kind |-> "timer"]})
               /\ hook' = SetState(hook, [hook EXCEPT !.loading = TRUE])
               /\ timers' = rest
          ELSE /\ hook' = next.hook
               /\ timers' = next.timers
               /\ UNCHANGED inflight
    /\ UNCHANGED otherVars

\* the isActiveRef test after the await left out
ResultNeverDropped(h) == FALSE

\* lines 81 and 94: a result that arrives after unmount is dropped
ResultDropped(h) == ~h.isActiveRef

\* lines 83-91: the state after pollingFunction resolved with `result`
AfterSuccess(h, result) ==
    [h EXCEPT !.data = result, !.error = NoError, !.consecutiveErrors = 0,
              !.currentInterval = h.config.baseInterval, !.loading = FALSE]

\* lines 96-109: the state after pollingFunction rejected
AfterFailure(h, err) ==
    [h EXCEPT !.error = err, !.consecutiveErrors = @ + 1,
              !.currentInterval = calculateNextInterval(h.config, h.consecutiveErrors + 1),
              !.loading = FALSE]

\* pollingFunction() of a poll in flight settles, lines 79-114, and
\* the caller's continuation runs
PollSettles(p, ok) ==
    /\ BagIn(p, inflight)
    /\ ok \/ hook.consecutiveErrors < MaxErrors
    /\ LET h == IF ResultDropped(hook) THEN hook
             ELSE IF ok THEN AfterSuccess(hook, "messages")
             ELSE AfterFailure(hook, "Polling failed")
           next == Continuation(h, timers, p.snap, p.kind)
       IN /\ hook' = next.hook
          /\ timers' = next.timers
    /\ inflight' = inflight (-) SetToBag({p})
    /\ UNCHANGED otherVars

\* the component unmounts: the cleanup of lines 206-213
Unmount ==
    /\ hook.isActiveRef
    /\ hook' = [hook EXCEPT !.isActiveRef = FALSE]
    /\ timers' = IF hook.timeoutRef # 0 THEN ClearTimeout(timers, hook.timeoutRef) ELSE timers
    /\ UNCHANGED <<inflight, otherVars>>

(* ---------------------------------------------------------------------- *)
(* TrialService.startTrial (lib/trial-service.ts)                          *)
(* ---------------------------------------------------------------------- *)
\* private readonly TRIAL_DURATION_DAYS = 14
TRIAL_DURATION_DAYS == 14

ALREADY_USED == "Trial already used. Upgrade to continue using premium features."

\* getTrialStatus(userId), lines 43-52: "TODO: Replace with actual Supabase
\* client"; it logs and returns the same status for every user
getTrialStatus(userId) ==
    [isActive |-> FALSE, daysRemaining |-> TRIAL_DURATION_DAYS, hasUsedTrial |-> FALSE]

\* line 16: if (existingTrial.hasUsedTrial) throw
TrialRefused(existingTrial) == existingTrial.hasUsedTrial

NoTrialCall == [calls |-> 0, started |-> 0, threw |-> "", expiresAt |-> 0]

\* startTrial(userId), lines 13-41: throws when the trial was used;
\* otherwise logs ("Save trial start to database" is a TODO: no row is
\* written), tracks the event and returns the status of a running trial
StartTrial(u) ==
    /\ trials[u].calls < MaxTrialCalls
    /\ LET existingTrial == getTrialStatus(u)
       IN trials' = [trials EXCEPT ![u] =
             IF TrialRefused(existingTrial)
             THEN [@ EXCEPT !.calls = @ + 1, !.threw = ALREADY_USED]
             ELSE [@ EXCEPT !.calls = @ + 1, !.started = @ + 1, !.threw = "",
                            !.expiresAt = day + TRIAL_DURATION_DAYS]]
    /\ UNCHANGED <<dbVars, req, post, tierEval, hookVars, stripe, listing, mail,
                   realtime>>

(* ---------------------------------------------------------------------- *)
(* Stripe checkout and webhooks (app/api/stripe)                           *)
(* ---------------------------------------------------------------------- *)
\* PRICING_TIERS[tier].priceId; the free tier has none
PriceIds ==
    [quick |-> "price_quick_monthly", extended |-> "price_extended_monthly",
     pro |-> "price_pro_monthly"]

\* the prices the Stripe account knows
KnownPrices == {PriceIds[t] : t \in DOMAIN PriceIds}

\* what a client can put in the body { priceId, tier } of the checkout
\* request; NULL is a missing field
CheckoutPriceIds == {"price_quick_monthly", "price_unknown"}
CheckoutTiers == {"quick", "pro", "enterprise", NULL}

\* getCurrentUser(request), lines 7-13: "TODO: Replace with actual user
\* retrieval logic"; the same user for every request
getCurrentUser == [id |-> "user_123", stripe_customer_id |-> NULL]

\* POST /api/stripe/checkout, lines 15-64: the customer is created, then
\* the session with line_items = [priceId] and metadata { userId, tier };
\* an error of the Stripe API (an unknown price among them) gives 500
CheckoutPost(priceId, tier, customerFails) ==
    /\ Cardinality(stripe.sessions) < MaxSessions
    /\ LET user == getCurrentUser
           session == [id |-> Cardinality(stripe.sessions) + 1,
                       price |-> priceId,
                       metadata |-> [userId |-> user.id, tier |-> tier]]
       IN IF customerFails \/ priceId \notin KnownPrices
          THEN stripe' = [stripe EXCEPT !.status = 500, !.error = "Checkout failed"]
          ELSE stripe' = [stripe EXCEPT !.sessions = @ \cup {session},
                                        !.status = 200, !.error = ""]
    /\ UNCHANGED <<dbVars, req, post, tierEval, hookVars, trials, listing, mail,
                   realtime>>

\* a session object nobody paid for, as a forged request body carries it
ForgedSession ==
    [id |-> 0, price |-> "price_pro_monthly",
     metadata |-> [userId |-> "user_123", tier |-> "pro"]]

EventTypes ==
    {"checkout.session.completed", "invoice.payment_succeeded",
     "customer.subscription.deleted"}

\* the signature is left unverified
constructEventUnverified(signed) == TRUE

\* stripe.webhooks.constructEvent(body, signature, STRIPE_WEBHOOK_SECRET),
\* lines 31-39: it returns the event iff the body was signed with the secret
constructEvent(signed) == signed

\* subscription_expires_at: Date.now() + 30 * 24 * 60 * 60 * 1000
BILLING_DAYS == 30

\* handleSubscriptionSuccess(session), lines 56-77: users.update({
\* subscription_tier: tier, ... }).eq('id', userId), then trackRevenue.  The
\* supabase object of this file logs the update it is handed (lines 8-17).
handleSubscriptionSuccess(st, session) ==
    LET userId == session.metadata.userId
        tier == session.metadata.tier
    IN [st EXCEPT
          !.updates = Append(@, [table |-> "users", id |-> userId,
                                 subscription_tier |-> tier,
                                 subscription_expires_at |-> day + BILLING_DAYS,
                                 session |-> session.id]),
          !.revenue = Append(@, [userId |-> userId, tier |-> tier,
                                 event |-> "subscription_started"])]

\* a request received by the webhook endpoint, with the response it got
Answered(event, status, error) ==
    [type |-> event.type, signed |-> event.signed, session |-> event.session,
     status |-> status, error |-> error]

\* POST /api/stripe/webhooks, lines 25-54.  Stripe signs the events of its
\* own sessions; anybody can post an unsigned body.
WebhookPost(type, session, signed) ==
    /\ stripe.deliveries < MaxDeliveries
    /\ signed => session \in stripe.sessions
    /\ LET event == [type |-> type, signed |-> signed, session |-> session.id]
           st == [stripe EXCEPT !.deliveries = @ + 1]
       IN IF ~constructEvent(signed)
          THEN stripe' = [st EXCEPT !.events = Append(@, Answered(event, 400, "Invalid signature"))]
          ELSE IF type = "checkout.session.completed"
          THEN stripe' = [handleSubscriptionSuccess(st, session)
                             EXCEPT !.events = Append(@, Answered(event, 200, ""))]
          ELSE stripe' = [st EXCEPT !.events = Append(@, Answered(event, 200, ""))]
    /\ UNCHANGED <<dbVars, req, post, tierEval, hookVars, trials, listing, mail,
                   realtime>>

(* ---------------------------------------------------------------------- *)
(* GET /api/emails (app/api/emails/route.ts)                               *)
(* ---------------------------------------------------------------------- *)
HOURS_PER_DAY == 24

\* the clock in hours; requests are made at midnight
Now == day * HOURS_PER_DAY

\* expires_at of a row: its creation time plus its retention
ExpiresAt(row) == row.created_day * HOURS_PER_DAY + row.retention_hours

\* expired rows are listed too
ListedWithExpired(row, userId, now) ==
    /\ row.user_id = userId
    /\ row.is_active = TRUE

\* .eq('user_id', user.id).eq('is_active', true).gt('expires_at', now)
Listed(row, userId, now) ==
    /\ row.user_id = userId
    /\ row.is_active = TRUE
    /\ ExpiresAt(row) > now

\* .order('created_at', { ascending: false }): the rows of S newest first;
\* rows created on the same day come in either order
NewestFirst(S) ==
    {seq \in [1..Cardinality(S) -> S] :
        /\ \A i, j \in DOMAIN seq : i # j => seq[i] # seq[j]
        /\ \A i, j \in DOMAIN seq : i < j => seq[i].created_day >= seq[j].created_day}

\* GET, lines 133-172
GetEmails(u, dbError) ==
    /\ IF u = ANON
       THEN listing' = [user |-> u, status |-> 401, error |-> "Unauthorized",
                        now |-> Now, emails |-> <<>>]
       ELSE IF dbError
       THEN listing' = [user |-> u, status |-> 500, error |-> "Failed to fetch emails",
                        now |-> Now, emails |-> <<>>]
       ELSE \E emails \in NewestFirst({row \in BagToSet(temp_emails) : Listed(row, u, Now)}) :
               listing' = [user |-> u, status |-> 200, error |-> "",
                           now |-> Now, emails |-> emails]
    /\ UNCHANGED <<dbVars, req, post, tierEval, hookVars, trials, stripe, mail,
                   realtime>>

(* ---------------------------------------------------------------------- *)
(* useRealtimeMessages (hooks/useRealtimeMessages.ts)                      *)
(* ---------------------------------------------------------------------- *)
\* messages are numbered in their order of arrival
MessageIds == 1..MaxMessages

Range(seq) == {seq[i] : i \in DOMAIN seq}

\* the list /api/emails/{id}/messages answers: newest first
RECURSIVE ByReceivedAt(_)
ByReceivedAt(S) ==
    IF S = {} THEN <<>>
    ELSE LET m == CHOOSE x \in S : \A y \in S : y <= x
         IN <<m>> \o ByReceivedAt(S \ {m})

\* useState / useRef initial values, lines 36-39, with messageData = null;
\* arrived, loaded, initial and appeared record what the server has done
Constructed ==
    [hasInitializedRef |-> FALSE, previousMessageCount |-> 0, messages |-> <<>>,
     notified |-> [m \in MessageIds |-> 0],
     arrived |-> 0, loaded |-> FALSE, initial |-> {}, appeared |-> {}]

\* the new-message effect, lines 91-116, run with the list `messages`; the
\* render that follows setPreviousMessageCount runs it again, with
\* messages.length = previousMessageCount and therefore no effect
NewMessageEffect(rt, messages) ==
    IF ~rt.hasInitializedRef
    THEN [rt EXCEPT !.previousMessageCount = IF Len(messages) > 0 THEN Len(messages) ELSE @,
                    !.hasInitializedRef = TRUE]
    ELSE IF Len(messages) > rt.previousMessageCount
    THEN LET newMessages == SubSeq(messages, 1, Len(messages) - rt.previousMessageCount)
         IN [rt EXCEPT !.notified = [m \in MessageIds |->
                                        IF m \in Range(newMessages) THEN @[m] + 1 ELSE @[m]],
                       !.previousMessageCount = Len(messages)]
    ELSE rt

\* the hook after its first render: the effect has run with messages = []
RealtimeIdle == NewMessageEffect(Constructed, <<>>)

\* a poll resolves (setData): since the last poll `arrivals` messages have
\* arrived and S is what is left of them and of the former list
PollDelivers(arrivals, S) ==
    /\ arrivals <= MaxMessages - realtime.arrived
    /\ S \subseteq Range(realtime.messages)
                      \cup (realtime.arrived + 1 .. realtime.arrived + arrivals)
    /\ LET messages == ByReceivedAt(S)
           rt == [realtime EXCEPT !.arrived = @ + arrivals,
                                  !.messages = messages,
                                  !.loaded = TRUE,
                                  !.initial = IF realtime.loaded THEN @ ELSE S,
                                  !.appeared = @ \cup S]
       IN realtime' = NewMessageEffect(rt, messages)
    /\ UNCHANGED <<dbVars, req, post, tierEval, hookVars, trials, stripe, listing, mail>>

(* ---------------------------------------------------------------------- *)
(* Initial states                                                          *)
(* ---------------------------------------------------------------------- *)

\* emails_generated of day 0 after k sequential requests without a domain
UsageAfter(k) == [d \in Days |-> IF d = 0 THEN k ELSE 0]

\* the temp_emails row such a request left behind
PlainRow(u, tier) ==
    [user_id |-> u,
     email_address |-> generateRandomEmail(NoStr),
     domain |-> DomainOf(generateRandomEmail(NoStr)),
     provider |-> "mail.tm",
     retention_hours |-> GenerateLimits(tier).retention_hours,
     custom_domain |-> FALSE,
     is_active |-> TRUE,
     created_day |-> 0]

\* how many emails a user has generated today when the run starts: none,
\* one below the tier's limit, or the limit
StartCounts(tier) ==
    LET lim == GenerateLimits(tier).emails_per_day IN {0, lim - 1, lim}

PostIdle ==
    [n |-> 0, user |-> ANON, customDomain |-> NoStr, profile |-> NoUser, trial |-> {},
     day |-> 0, emailsGenerated |-> 0, result |-> Thrown("none", "", <<>>), status |-> 0,
     effectiveTier |-> NULL, retentionHours |-> 0, inserted |-> FALSE,
     incremented |-> FALSE]
TierEvalIdle ==
    [user |-> ANON, row |-> NoUser, trial |-> {}, day |-> 0, trialActive |-> FALSE,
     result |-> NULL, sqlResult |-> NULL]
HookIdle ==
    Mounted([baseInterval |-> 10000, maxInterval |-> 300000, maxRetries |-> 5,
             backoffMultiplier |-> 2, isOnlinePollingEnabled |-> TRUE], TRUE)

TrialsIdle == [u \in Users |-> NoTrialCall]
StripeIdle ==
    [sessions |-> {}, events |-> <<>>, updates |-> <<>>, revenue |-> <<>>,
     deliveries |-> 0, status |-> 0, error |-> ""]
ListingIdle == [user |-> ANON, status |-> 0, error |-> "", now |-> 0, emails |-> <<>>]
MailIdle ==
    [token |-> NoStr, generated |-> <<>>, threw |-> "",
     read |-> [email |-> NoStr, fetched |-> FALSE, inbox |-> [provider |-> "", address |-> NoStr]]]
AuxIdle ==
    /\ trials = TrialsIdle
    /\ stripe = StripeIdle
    /\ listing = ListingIdle
    /\ mail = MailIdle
    /\ realtime = RealtimeIdle

\* the database after each user has made some requests today
InitDatabase(tierOf, countOf) ==
    /\ day = 0
    /\ users = [u \in Users |-> UserRow(tierOf[u], NoDate)]
    /\ user_trials = [u \in Users |-> {}]
    /\ daily_usage = [u \in Users |-> UsageAfter(countOf[u])]
    /\ temp_emails = [row \in {PlainRow(u, tierOf[u]) : u \in {v \in Users : countOf[v] > 0}}
                        |-> countOf[row.user_id]]

\* one user has any tier and has made some requests today; the others are
\* as handle_new_user left them (subscription_tier DEFAULT 'free')
InitUsers ==
    \E tier \in TierValues :
       \E k \in StartCounts(tier) :
          InitDatabase([u \in Users |-> IF u = "u1" THEN tier ELSE "free"],
                       [u \in Users |-> IF u = "u1" THEN k ELSE 0])

\* a user_trials row: none, a running trial, an expired one, a deactivated one
\* (UNIQUE(user_id, trial_type): at most one row per user)
TrialRows ==
    {{}} \cup {{t} : t \in [is_active : BOOLEAN, expires_at : {0, MaxDay + 1}]}

\* subscription_expires_at is written together with a paid tier: already
\* expired, expiring tomorrow, or further in the future
ExpiryValues(tier) == IF tier \in {NULL, "free"} THEN {NoDate} ELSE {{0}, {1}, {MaxDay + 1}}

\* the database with one user of the given tier, expiry, trial row and
\* number of emails generated today; the other user is as handle_new_user
\* left it
InitProfile(tier, k, e, t) ==
    /\ day = 0
    /\ users = [u \in Users |-> IF u = "u1" THEN UserRow(tier, e)
                                ELSE UserRow("free", NoDate)]
    /\ user_trials = [u \in Users |-> IF u = "u1" THEN t ELSE {}]
    /\ daily_usage = [u \in Users |-> UsageAfter(IF u = "u1" THEN k ELSE 0)]
    /\ temp_emails = [row \in {PlainRow(u, tier) : u \in {v \in {"u1"} : k > 0}} |-> k]

\* POST /api/emails reads the trial row through get_effective_user_tier
\* only: no trial, or one that runs until the end of day 0; it never reads
\* subscription_expires_at
RouteTrialRows == {{}, {[is_active |-> TRUE, expires_at |-> 1]}}
RouteExpiry(tier) == IF tier \in {NULL, "free"} THEN NoDate ELSE {1}

InitEmails ==
    /\ \E tier \in TierValues :
         \E k \in StartCounts(tier), t \in RouteTrialRows :
            InitProfile(tier, k, RouteExpiry(tier), t)
    /\ req = [r \in Requests |-> IdleRequest]
    /\ post = PostIdle
    /\ tierEval = TierEvalIdle
    /\ hook = HookIdle
    /\ timers = {}
    /\ inflight = EmptyBag
    /\ AuxIdle

NextEmails ==
    \/ NewDay
    \/ \E u \in Users \cup {ANON}, customDomain \in CustomDomains,
          env \in ProviderEnvs, saveError \in BOOLEAN :
          PostEmails(u, customDomain, env, saveError)

SpecEmails == InitEmails /\ [][NextEmails]_vars

NextTier ==
    \/ NewDay
    \/ \E u \in Users, isActive \in BOOLEAN : EvalEffectiveTier(u, isActive)

InitTier ==
    /\ \E tier \in TierValues :
         \E k \in StartCounts(tier), e \in ExpiryValues(tier), t \in TrialRows :
            InitProfile(tier, k, e, t)
    /\ req = [r \in Requests |-> IdleRequest]
    /\ post = PostIdle
    /\ tierEval = TierEvalIdle
    /\ hook = HookIdle
    /\ timers = {}
    /\ inflight = EmptyBag
    /\ AuxIdle

SpecTier == InitTier /\ [][NextTier]_vars

InitPolling ==
    /\ InitDatabase([u \in Users |-> "free"], [u \in Users |-> 0])
    /\ req = [r \in Requests |-> IdleRequest]
    /\ post = PostIdle
    /\ tierEval = TierEvalIdle
    /\ \E config \in PollingConfigs, onLine \in BOOLEAN : hook = Mounted(config, onLine)
    /\ timers = {}
    /\ inflight = EmptyBag
    /\ AuxIdle

NextPolling ==
    \/ StartPolling
    \/ StopPolling
    \/ ForcePoll
    \/ HandleOnline
    \/ HandleOffline
    \/ \E hidden \in BOOLEAN : HandleVisibilityChange(hidden)
    \/ \E t \in timers : TimerFires(t)
    \/ \E p \in BagToSet(inflight), ok \in BOOLEAN : PollSettles(p, ok)
    \/ Unmount

SpecPolling == InitPolling /\ [][NextPolling]_vars

InitGenerate ==
    /\ InitUsers
    /\ req = [r \in Requests |-> IdleRequest]
    /\ post = PostIdle
    /\ tierEval = TierEvalIdle
    /\ hook = HookIdle
    /\ timers = {}
    /\ inflight = EmptyBag
    /\ AuxIdle

NextGenerate ==
    \/ NewDay
    \/ \E r \in Requests, u \in Users \cup {ANON}, body \in GenerateBodies :
          GenerateBegin(r, u, body)
    \/ \E r \in Requests : GenerateSelectUsage(r)
    \/ \E r \in Requests, saveError \in BOOLEAN : GenerateInsert(r, saveError)
    \/ \E r \in Requests : GenerateIncrement(r)

SpecGenerate == InitGenerate /\ [][NextGenerate]_vars

InitTrial ==
    /\ InitUsers
    /\ req = [r \in Requests |-> IdleRequest]
    /\ post = PostIdle
    /\ tierEval = TierEvalIdle
    /\ hook = HookIdle
    /\ timers = {}
    /\ inflight = EmptyBag
    /\ AuxIdle

NextTrial ==
    \/ NewDay
    \/ \E u \in Users : StartTrial(u)

SpecTrial == InitTrial /\ [][NextTrial]_vars

InitStripe ==
    /\ InitDatabase([u \in Users |-> "free"], [u \in Users |-> 0])
    /\ req = [r \in Requests |-> IdleRequest]
    /\ post = PostIdle
    /\ tierEval = TierEvalIdle
    /\ hook = HookIdle
    /\ timers = {}
    /\ inflight = EmptyBag
    /\ AuxIdle

NextStripe ==
    \/ \E priceId \in CheckoutPriceIds, tier \in CheckoutTiers, customerFails \in BOOLEAN :
          CheckoutPost(priceId, tier, customerFails)
    \/ \E type \in EventTypes, session \in stripe.sessions \cup {ForgedSession},
          signed \in BOOLEAN : WebhookPost(type, session, signed)

SpecStripe == InitStripe /\ [][NextStripe]_vars

\* a temp_emails row inserted yesterday or today, possibly deactivated since
StoredRow(u, tier, active, created) ==
    [PlainRow(u, tier) EXCEPT !.is_active = active, !.created_day = created]

StoredRows ==
    {StoredRow(u, tier, active, created) :
        u \in Users, tier \in {"free", "quick", "extended"}, active \in BOOLEAN,
        created \in {-1, 0}}

\* the table holds up to MaxRows rows of any users
InitList ==
    /\ day = 0
    /\ users = [u \in Users |-> UserRow("quick", NoDate)]
    /\ user_trials = [u \in Users |-> {}]
    /\ daily_usage = [u \in Users |-> UsageAfter(0)]
    /\ \E S \in SUBSET StoredRows :
          /\ Cardinality(S) <= MaxRows
          /\ temp_emails = SetToBag(S)
    /\ req = [r \in Requests |-> IdleRequest]
    /\ post = PostIdle
    /\ tierEval = TierEvalIdle
    /\ hook = HookIdle
    /\ timers = {}
    /\ inflight = EmptyBag
    /\ AuxIdle

NextList ==
    \/ NewDay
    \/ \E u \in Users \cup {ANON}, dbError \in BOOLEAN : GetEmails(u, dbError)

SpecList == InitList /\ [][NextList]_vars

InitService ==
    /\ InitDatabase([u \in Users |-> "free"], [u \in Users |-> 0])
    /\ req = [r \in Requests |-> IdleRequest]
    /\ post = PostIdle
    /\ tierEval = TierEvalIdle
    /\ hook = HookIdle
    /\ timers = {}
    /\ inflight = EmptyBag
    /\ AuxIdle

NextService ==
    \/ \E tier \in ServiceTiers, customDomain \in ServiceDomains,
          requested \in RequestedRetention, env \in ProviderEnvs :
          ServiceGenerate(tier, customDomain, requested, env)
    \/ \E i \in DOMAIN mail.generated, fetchFails \in BOOLEAN :
          ServiceGetMessages(mail.generated[i].email, fetchFails)

SpecService == InitService /\ [][NextService]_vars

InitRealtime ==
    /\ InitDatabase([u \in Users |-> "free"], [u \in Users |-> 0])
    /\ req = [r \in Requests |-> IdleRequest]
    /\ post = PostIdle
    /\ tierEval = TierEvalIdle
    /\ hook = HookIdle
    /\ timers = {}
    /\ inflight = EmptyBag
    /\ AuxIdle

NextRealtime ==
    \E arrivals \in 0..MaxMessages, S \in SUBSET MessageIds : PollDelivers(arrivals, S)

SpecRealtime == InitRealtime /\ [][NextRealtime]_vars

(* ---------------------------------------------------------------------- *)
(* Claims about POST /api/emails/generate                                  *)
(* ---------------------------------------------------------------------- *)
\* the daily limits as the documentation states them; a missing tier is free
ClaimedEmailsPerDay(tier) ==
    CASE tier = "quick"    -> 25
      [] tier = "extended" -> 100
      [] tier = "pro"      -> 500
      [] OTHER             -> 5

\* all temp_emails rows of a user, and all emails_generated of a user
RowsAll(u) ==
    LET S == {row \in BagToSet(temp_emails) : row.user_id = u}
    IN BagCardinality([row \in S |-> temp_emails[row]])

RECURSIVE SumUsage(_, _)
SumUsage(u, ds) ==
    IF ds = {} THEN 0
    ELSE LET d == CHOOSE x \in ds : TRUE
         IN daily_usage[u][d] + SumUsage(u, ds \ {d})

UsageAll(u) == SumUsage(u, Days)

C3_RowsWithinDailyLimit ==
    \A u \in Users, d \in Days :
       RowsOf(u, d) <= ClaimedEmailsPerDay(users[u].subscription_tier)

\* C5: no temp_emails row has a premium domain whose required tier ranks
\* above the subscription tier of the row's user.
C5_PremiumDomainNeedsTier ==
    \A row \in BagToSet(temp_emails) :
       row.domain \in DOMAIN PREMIUM_DOMAINS =>
          TierIndex(users[row.user_id].subscription_tier)
              >= TierIndex(PREMIUM_DOMAINS[row.domain])

(* ---------------------------------------------------------------------- *)
(* Claims about POST /api/emails and EmailService                          *)
(* ---------------------------------------------------------------------- *)
PaidTiers == {"quick", "extended", "pro"}

\* the rank of a tier in free < quick < extended < pro
RankOf(tier) == CHOOSE i \in 1..4 : <<"free", "quick", "extended", "pro">>[i] = tier

\* C1: POST /api/emails of a user whose count for today is >= the tier's
\* daily limit ends in PremiumFeatureRequired before any provider is
\* contacted, inserts no temp_emails row and does not increment the usage.
C1_NoEmailPastDailyLimit ==
    (/\ post.n > 0 /\ post.user # ANON
     /\ post.emailsGenerated >= ClaimedEmailsPerDay(post.profile.subscription_tier))
    => /\ post.result.outcome = "PremiumFeatureRequired"
       /\ post.result.log = <<>>
       /\ ~post.inserted /\ ~post.incremented

\* a custom domain is requested that the tier may not use
C4_Case ==
    /\ post.n > 0 /\ post.user # ANON
    /\ Truthy(post.customDomain)
    /\ \/ post.profile.subscription_tier \notin PaidTiers
       \/ /\ post.customDomain \in DOMAIN PREMIUM_DOMAINS
          /\ RankOf(PREMIUM_DOMAINS[post.customDomain])
                > RankOf(post.profile.subscription_tier)

\* C4: generateEmail throws PremiumFeatureRequired, with no provider call,
\* no save and no usage tracking, whenever a customDomain is requested and
\* the tier has no custom-domain access (free, missing) or the domain is a
\* premium domain whose required tier ranks above the user's tier.
C4_CustomDomainNeedsTier ==
    C4_Case => /\ post.result.outcome = "PremiumFeatureRequired"
               /\ post.result.log = <<>>
               /\ ~post.inserted

\* C4 witness: a quick user asked for negoman.com (extended) and was refused
C4_Witness ==
    /\ C4_Case
    /\ post.profile.subscription_tier = "quick"
    /\ post.customDomain = <<"negoman.com">>
    /\ post.status = 402

CallsOf(log, call) == SelectSeq(log, LAMBDA e : e.call = call)

\* C6: the providers are tried in the order Mail.tm, TempMail.lol; the
\* second only after the first reported unhealthy or threw; the returned
\* provider name is that of the provider whose generateEmail returned the
\* returned address; when no provider succeeds the call throws 'All email
\* providers are currently unavailable' with nothing saved or tracked.
C6_ProviderFallback ==
    (post.n > 0 /\ post.result.outcome \in {"ok", "Error"}) =>
       LET res == post.result
           log == res.log
           health == CallsOf(log, "isHealthy")
           order == <<"Mail.tm", "TempMail.lol">>
           succeeded == {i \in DOMAIN log : log[i].call = "generateEmail" /\ log[i].result}
       IN /\ Len(health) \in 1..2
          /\ \A i \in DOMAIN health : health[i].provider = order[i]
          /\ (\E i \in DOMAIN log : log[i].provider = "TempMail.lol") =>
                \E j \in DOMAIN log :
                   /\ log[j].provider = "Mail.tm" /\ ~log[j].result
                   /\ \A i \in DOMAIN log : log[i].provider = "TempMail.lol" => j < i
          /\ res.outcome = "ok" =>
                /\ Cardinality(succeeded) = 1
                /\ \A i \in succeeded : /\ log[i].provider = res.provider
                                        /\ log[i].returned = res.email
                /\ Len(CallsOf(log, "saveGeneratedEmail")) = 1
                /\ Len(CallsOf(log, "trackUsage")) = 1
          /\ res.outcome = "Error" =>
                /\ succeeded = {}
                /\ res.message = "All email providers are currently unavailable"
                /\ CallsOf(log, "saveGeneratedEmail") = <<>>
                /\ CallsOf(log, "trackUsage") = <<>>
                /\ ~post.inserted /\ ~post.incremented
          /\ succeeded = {} => res.outcome = "Error"

\* C6 witness: Mail.tm failed and TempMail.lol produced the address
C6_Witness ==
    /\ post.n > 0 /\ post.result.outcome = "ok"
    /\ post.result.provider = "TempMail.lol"
    /\ \E i \in DOMAIN post.result.log :
          post.result.log[i].provider = "Mail.tm" /\ ~post.result.log[i].result

\* C10: a trial never lowers a tier: a user with a paid tier and an
\* unexpired subscription gets that tier from TrialService.getEffectiveUserTier
\* and from get_effective_user_tier, trial or not; an active trial raises any
\* other user to 'extended'; every other user is 'free'.
C10_TrialNeverLowersTier ==
    tierEval.user # ANON =>
       LET row == tierEval.row
           paid == /\ row.subscription_tier \in PaidTiers
                   /\ \E e \in row.subscription_expires_at : e > tierEval.day
           sqlTrial == \E t \in tierEval.trial : t.is_active /\ t.expires_at > tierEval.day
           Expected(trialActive) ==
               IF paid THEN row.subscription_tier
               ELSE IF trialActive THEN "extended" ELSE "free"
       IN /\ tierEval.result = Expected(tierEval.trialActive)
          /\ tierEval.sqlResult = Expected(sqlTrial)

(* ---------------------------------------------------------------------- *)
(* Claims about useAdvancedPolling                                         *)
(* ---------------------------------------------------------------------- *)
\* a poll settles while the component is mounted, with success / failure
\* pollingFunction is invoked in this step
PollInvoked == BagCardinality(inflight') > BagCardinality(inflight)

PollSucceeded == BagCardinality(inflight') < BagCardinality(inflight) /\ hook.isActiveRef /\ hook'.error = NoError
PollFailed == BagCardinality(inflight') < BagCardinality(inflight) /\ hook.isActiveRef /\ hook'.error # NoError

IntervalInRange(h) ==
    h.config.baseInterval <= h.currentInterval /\ h.currentInterval <= h.config.maxInterval

\* C7 as stated: a successful poll resets currentInterval to baseInterval and
\* consecutiveErrors to 0; each failed poll sets currentInterval to
\* min(previous currentInterval x backoffMultiplier, maxInterval);
\* currentInterval stays between baseInterval and maxInterval.
C7_EveryFailureMultiplies ==
    [][/\ PollSucceeded => /\ hook'.currentInterval = hook.config.baseInterval
                           /\ hook'.consecutiveErrors = 0
       /\ PollFailed => hook'.currentInterval =
                           Min(hook.currentInterval * hook.config.backoffMultiplier,
                               hook.config.maxInterval)
       /\ IntervalInRange(hook')]_vars

\* C7 amended: as stated, except that the first failure after a success (or
\* after mount) leaves currentInterval at baseInterval; each further
\* consecutive failure multiplies it by backoffMultiplier up to maxInterval.
C7_FailureMultipliesAfterFirst ==
    [][/\ PollSucceeded => /\ hook'.currentInterval = hook.config.baseInterval
                           /\ hook'.consecutiveErrors = 0
       /\ PollFailed =>
             /\ hook'.consecutiveErrors = hook.consecutiveErrors + 1
             /\ hook'.currentInterval =
                   IF hook.consecutiveErrors = 0 THEN hook.config.baseInterval
                   ELSE Min(hook.currentInterval * hook.config.backoffMultiplier,
                            hook.config.maxInterval)
       /\ IntervalInRange(hook')]_vars

\* C7 witness: polls have failed until the interval reached maxInterval
\* (5000 x 2^4 > 60000)
C7_Witness ==
    /\ hook.consecutiveErrors >= 2
    /\ hook.currentInterval = hook.config.maxInterval
    /\ hook.error # NoError

C9_NothingAfterUnmount ==
    [][/\ ~hook'.isActiveRef => timers' = {}
       /\ ~hook.isActiveRef =>
             /\ ~PollInvoked
             /\ hook'.data = hook.data
             /\ hook'.error = hook.error
             /\ hook'.consecutiveErrors = hook.consecutiveErrors
             /\ hook'.currentInterval = hook.currentInterval
             /\ ~hook'.isActiveRef]_vars

\* C9 witness: unmounted while a poll was in flight, and that poll has
\* settled since (loading was never reset), with a timer cleared at unmount
C9_Witness ==
    /\ ~hook.isActiveRef
    /\ hook.loading /\ inflight = EmptyBag
    /\ hook.timeoutRef # 0 /\ timers = {}

(* ---------------------------------------------------------------------- *)
(* Claims about TrialService.startTrial                                    *)
(* ---------------------------------------------------------------------- *)
\* C11: the trial can be used once per user: of all startTrial calls made
\* for a user at most one succeeded, and a call made after a successful
\* start threw 'Trial already used. Upgrade to continue using premium
\* features.'
C11_TrialOncePerUser ==
    \A u \in Users :
       /\ trials[u].started <= 1
       /\ trials[u].calls > 1 => trials[u].threw = ALREADY_USED

(* ---------------------------------------------------------------------- *)
(* Claims about the Stripe routes                                          *)
(* ---------------------------------------------------------------------- *)
\* the requests the webhook endpoint received that were signed
\* checkout.session.completed events
VerifiedCompleted ==
    SelectSeq(stripe.events,
              LAMBDA e : e.signed /\ e.type = "checkout.session.completed")

C13_OnlyKnownTiersWritten ==
    \A i \in DOMAIN stripe.updates : stripe.updates[i].subscription_tier \in Tiers

\* the tier a price pays for
TierOfPrice(priceId) == CHOOSE t \in DOMAIN PriceIds : PriceIds[t] = priceId

\* C19: the tier granted by a completed checkout is the tier paid for: the
\* update made for a session writes tier t only if the session's price is
\* the price of t.
C19_GrantedTierIsPaidTier ==
    \A i \in DOMAIN stripe.updates :
       \A session \in stripe.sessions :
          session.id = stripe.updates[i].session
             => stripe.updates[i].subscription_tier = TierOfPrice(session.price)

C15_ExpiryWithinTierRetention ==
    \A i \in DOMAIN mail.generated :
       /\ 0 < mail.generated[i].retentionHours
       /\ mail.generated[i].retentionHours
             <= getUserLimits(mail.generated[i].tier).retentionHours

\* C16: a generation refused because the daily usage limit is reached is
\* answered with status 429; 402 is kept for features that need a paid
\* subscription.
C16_DailyLimitAnswers429 ==
    \A r \in Requests :
       (req[r].pc = "done" /\ req[r].error = "Daily limit reached") => req[r].status = 429

\* C17: when generateEmail succeeds for a request carrying a customDomain,
\* the domain of the returned address is that customDomain, and so is the
\* domain of the row stored with custom_domain = true.
C17_CustomDomainIsReturned ==
    (post.n > 0 /\ post.result.outcome = "ok" /\ Truthy(post.customDomain))
       => /\ DomainOf(post.result.email) = post.customDomain
          /\ \A row \in BagToSet(temp_emails) :
                (row.custom_domain /\ row.email_address = post.result.email)
                   => row.domain = post.customDomain

\* the provider that generated an address on the instance
GeneratedBy(email) ==
    {mail.generated[i].provider : i \in {j \in DOMAIN mail.generated : mail.generated[j].email = email}}

\* C18: getMessages(email) returns only messages delivered to email: the
\* inbox it reads is the inbox of email, at the provider that generated it.
C18_ReadsOwnInbox ==
    mail.read.fetched
       => /\ mail.read.inbox.address = mail.read.email
          /\ mail.read.inbox.provider \in GeneratedBy(mail.read.email)

(* ---------------------------------------------------------------------- *)
(* Claims about useAdvancedPolling, continued                              *)
(* ---------------------------------------------------------------------- *)
\* a poll in flight has settled in this step
PollCompleted == BagCardinality(inflight') < BagCardinality(inflight)

\* C20: after startPolling, while the component is mounted, online, not
\* stopped and consecutiveErrors < maxRetries, every completed poll leaves
\* the next poll scheduled.
C20_CompletedPollReschedules ==
    [][(/\ PollCompleted
        /\ hook'.isActiveRef /\ hook'.isOnline /\ hook'.onLine /\ hook'.isPolling
        /\ hook'.consecutiveErrors < hook'.config.maxRetries)
       => timers' # {}]_vars

\* scheduleNextPoll clears timeoutRef.current before it sets a new timer, so
\* at most one poll timer is pending at any time
OneTimerPending == Cardinality(timers) <= 1

\* C21: once stopPolling has returned and until startPolling is called
\* (isPolling is false, the component mounted), no timer is pending, also
\* when a poll that began before stopPolling completes afterwards.
C21_StoppedHasNoTimer ==
    (hook.isActiveRef /\ ~hook.isPolling) => timers = {}

\* C22: when the browser fires 'online' while polling is active
\* (isPolling true, mounted, consecutiveErrors < maxRetries), the polling
\* function is invoked in that very step, without waiting for a timer.
C22_OnlineInvokesPoll ==
    [][(/\ ~hook.onLine /\ hook'.onLine
        /\ hook.isActiveRef /\ hook.isPolling
        /\ hook.consecutiveErrors < hook.config.maxRetries)
       => PollInvoked]_vars

\* C23: consecutiveErrors never exceeds maxRetries, whatever the
\* interleaving of timer-driven polls, forcePoll calls and online /
\* visibility-triggered polls in flight at the same time.
C23_ErrorsWithinMaxRetries ==
    hook.consecutiveErrors <= hook.config.maxRetries

(* ---------------------------------------------------------------------- *)
(* Claims about useRealtimeMessages                                        *)
(* ---------------------------------------------------------------------- *)
\* C24: the messages present at the first successful load cause no
\* notifyNewMessage call; every message that appeared in the polled list
\* afterwards has been notified exactly once, and no message more than once.
C24_NotifiedOncePerNewMessage ==
    \A m \in MessageIds :
       realtime.notified[m] =
          IF m \in realtime.appeared \ realtime.initial THEN 1 ELSE 0

====
